---- MODULE Spec2Model ----
(***************************************************************************)
(* Model of the SPA training loop (algorithms/snlpe/spa.py) and of the     *)
(* SNRE runner (runs/benchmark_snrmcmc.py).                                *)
(*                                                                         *)
(* Four specifications share the module's variables:                       *)
(*   SpecMonitor  the epoch loop's early-stopping monitor, fed loss by loss *)
(*   SpecSplit    _split_train_eval on a batch of N rows                   *)
(*   Spec         inference_spa with its three training phases             *)
(*   SpecRun      run() of the SNRE benchmark, called repeatedly           *)
(* Each leaves the variables of the others at their idle values.           *)
(***************************************************************************)
EXTENDS Integers, Sequences, FiniteSets

(* ------------------------------ bounds -------------------------------- *)
MaxLoss == 2
MaxMonEpochs == 5
MaxStop == 2
MaxRows == 4
MaxSims == 8
MaxRounds == 4
MaxCalls == 2
MaxIter == 2
MaxLik == 2
MaxPost == 2
MaxEpochs == 3
MaxPhaseLoss == 1

(* --------------------------- float values ----------------------------- *)
(* Validation losses are Python floats. Only their order is used, so the   *)
(* finite ones are 0..MaxLoss; Inf is float("inf") and NaN compares false  *)
(* with everything, as IEEE comparison does.                               *)
Inf == MaxLoss + 1
NaN == MaxLoss + 2
FiniteLoss == 0..MaxLoss
LossValues == FiniteLoss \cup {Inf, NaN}

FGt(a, b) == a # NaN /\ b # NaN /\ a > b
FLt(a, b) == a # NaN /\ b # NaN /\ a < b

(* Python's None, returned in place of the wait counter to signal a stop. *)
None == -1

(* validation_fraction and prob_prior[i] are Python floats (IEEE doubles,   *)
(* 53-bit significand, round to nearest, ties to even).  A caller writes a *)
(* fraction as the literal <<num, den>>, 0 <= num <= den, den < 2^14.  The *)
(* double it denotes, and every double computed from it, is kept exactly   *)
(* as <<num, den, err, ex>>, standing for                                  *)
(*          (num * 2^ex + err) / (den * 2^ex).                             *)
(* Row counts are below 2^14, so every product below fits 32 bits.         *)
RECURSIVE Pow2(_)
Pow2(k) == IF k = 0 THEN 1 ELSE 2 * Pow2(k - 1)

(* 2^ex mod m, by repeated squaring *)
RECURSIVE PowMod2(_, _)
PowMod2(ex, m) ==
    IF ex = 0 THEN 1 % m
    ELSE LET h == PowMod2(ex \div 2, m)
         IN  (h * h * (IF ex % 2 = 1 THEN 2 ELSE 1)) % m

(* the t with 2^(t-1) <= num/den < 2^t, for num > 0 *)
RECURSIVE Binade(_, _)
Binade(num, den) ==
    IF num >= den THEN 1 + Binade(num, 2 * den)
    ELSE IF 2 * num < den THEN Binade(2 * num, den) - 1
    ELSE 0

(* the least j >= from with 2^j >= k *)
RECURSIVE CeilLog2(_, _)
CeilLog2(k, from) == IF Pow2(from) >= k THEN from ELSE CeilLog2(k, from + 1)

(* the double nearest to num/den: its significand is the integer nearest   *)
(* to num * 2^ex / den, where ex = 53 - Binade(num, den)                   *)
Float(f) ==
    IF f[1] = 0 THEN <<0, f[2], 0, 0>>
    ELSE LET ex == 53 - Binade(f[1], f[2])
             rem == ((f[1] % f[2]) * PowMod2(ex, f[2])) % f[2]
         IN  <<f[1], f[2], IF 2 * rem < f[2] THEN 0 - rem ELSE f[2] - rem, ex>>

(* a float argument: a literal as the caller wrote it, or a computed double *)
AsFloat(f) == IF Len(f) = 2 THEN Float(f) ELSE f

(* 1 - f in double arithmetic, for f in [0, 1].  The difference is exact   *)
(* when it needs no more bits than f has (f >= 1/2, or f a short binary    *)
(* fraction); otherwise its low bits are rounded off, ties to even.        *)
OneMinus(f) ==
    LET x == AsFloat(f)
        num == x[2] - x[1]
        den == x[2]
    IN  IF x[3] = 0 THEN <<num, den, 0, x[4]>>
        ELSE LET ex == 53 - Binade(num, den)
                 g == x[4] - ex
                 a == (num * PowMod2(ex, 2 * den)) % (2 * den)
                 rem == a % den
                 w == Pow2(g) * rem - x[3]
                 half == den * Pow2(g - 1)
             IN  IF ex >= x[4] THEN <<num, den, 0 - x[3], x[4]>>
                 ELSE IF w > half \/ (w = half /\ a >= den)
                      THEN <<num, den, den - rem, ex>>
                      ELSE <<num, den, 0 - rem, ex>>

(* int(n * f) for a row count n >= 0: the product is rounded to a double   *)
(* and truncated.  With k = floor(n * num / den): a product strictly       *)
(* between k and k + 1 truncates to k; a product that would be exactly k   *)
(* but for the error of f, and falls below k, rounds back up to k only if  *)
(* it is within half a unit in the last place of k, and is k - 1 otherwise. *)
IntOfProduct(n, f) ==
    LET x == AsFloat(f)
        k == (n * x[1]) \div x[2]
        s == (n * x[1]) % x[2]
        sh == x[4] - 54 + CeilLog2(k, 0)
    IN  IF s > 0 \/ x[3] >= 0 \/ n = 0 THEN k
        ELSE IF sh >= 0 /\ n * (0 - x[3]) <= x[2] * Pow2(sh) THEN k
        ELSE IF sh < 0 /\ n * (0 - x[3]) * Pow2(0 - sh) <= x[2] THEN k
        ELSE k - 1

VARIABLES
    (* epoch loop locals of a training phase (_train_like, _train_post_sim_fly) *)
    e, losses_eval, nbr_waited, current_lowest_eval_loss,
    (* parameters shared by the phases *)
    early_stopping, stop_after_epochs,
    (* monitor bookkeeping: consecutive non-improving epochs since the last reset *)
    plateau,
    (* _split_train_eval *)
    (* generator: the order torch's random generator, in its current state, *)
    (* makes the call's torch.randperm return                               *)
    split_pc, split_n, split_fraction, generator, permutation_eval, idx_eval, idx_train,
    x_train, theta_train, x_eval, theta_eval,
    (* run() of benchmark_snrmcmc *)
    run_pc, calls, num_simulations, num_rounds, num_simulations_per_round,
    simulation_batch_size, training_batch_size, r, simulator_num_simulations,
    default_init_strategy, posteriors,
    (* inference_spa: position, arguments, iteration state, models *)
    pc, error, nbr_iter, batch_size, batch_size_post, epochs_hot_start, validation_fraction,
    i, prob_prior_i, nbr_lik_i, nbr_lik_prior, nbr_like_post, theta_full, x_full,
    flow_lik, flow_post, models_lik, models_post,
    (* the running training phase: its epoch count, row counts, and the epochs *)
    (* in which it called the check and in which it stepped the optimizer      *)
    epochs, train_rows, eval_rows, checked, updated, ret

varsLoop == <<e, losses_eval, nbr_waited, current_lowest_eval_loss,
              early_stopping, stop_after_epochs, plateau>>
varsSplit == <<split_pc, split_n, split_fraction, generator, permutation_eval, idx_eval, idx_train,
               x_train, theta_train, x_eval, theta_eval>>
varsRun == <<run_pc, calls, num_simulations, num_rounds, num_simulations_per_round,
             simulation_batch_size, training_batch_size, r,
             simulator_num_simulations, default_init_strategy, posteriors>>
varsArgs == <<nbr_iter, batch_size, batch_size_post, epochs_hot_start, validation_fraction>>
varsIter == <<i, prob_prior_i, nbr_lik_i, nbr_lik_prior, nbr_like_post, theta_full, x_full>>
varsModels == <<flow_lik, flow_post, models_lik, models_post>>
varsPhase == <<epochs, train_rows, eval_rows, checked, updated, ret>>
varsSpa == <<pc, error, varsArgs, varsIter, varsModels, varsPhase>>
vars == <<varsLoop, varsSplit, varsRun, varsSpa>>

(* ----------------------- _early_stopping_check ------------------------ *)
(* Returns <<nbr_waited or None, current_lowest_eval_loss>>.               *)
EarlyStoppingUpdate(loss_new, loss_old, lowest, waited) ==
    IF FGt(loss_new, loss_old)
    THEN <<waited + 1, IF FLt(loss_old, lowest) THEN loss_old ELSE lowest>>
    ELSE IF FGt(loss_new, lowest)
    THEN <<waited + 1, lowest>>
    ELSE IF FLt(loss_new, lowest)
    THEN <<0, loss_new>>
    ELSE <<waited, lowest>>

_early_stopping_check_flipped(loss_new, loss_old, lowest, waited, stop_after, epoch) ==
    LET u == EarlyStoppingUpdate(loss_old, loss_new, lowest, waited)
    IN  IF u[1] >= stop_after THEN <<None, u[2]>> ELSE u

_early_stopping_check(loss_new, loss_old, lowest, waited, stop_after, epoch) ==
    LET u == EarlyStoppingUpdate(loss_new, loss_old, lowest, waited)
    IN  IF u[1] >= stop_after THEN <<None, u[2]>> ELSE u

(* ---------------------------- idle values ----------------------------- *)
LoopIdle ==
    /\ e = 0
    /\ losses_eval = <<>>
    /\ nbr_waited = 0
    /\ current_lowest_eval_loss = Inf
    /\ early_stopping = TRUE
    /\ stop_after_epochs = 0
    /\ plateau = 0

SplitIdle ==
    /\ split_pc = "idle"
    /\ split_n = 0
    /\ split_fraction = <<0, 1>>
    /\ generator = <<>>
    /\ permutation_eval = <<>>
    /\ idx_eval = <<>>
    /\ idx_train = <<>>
    /\ x_train = <<>>
    /\ theta_train = <<>>
    /\ x_eval = <<>>
    /\ theta_eval = <<>>

RunIdle ==
    /\ run_pc = "idle"
    /\ calls = 0
    /\ num_simulations = 0
    /\ num_rounds = 0
    /\ num_simulations_per_round = 0
    /\ simulation_batch_size = 0
    /\ training_batch_size = 0
    /\ r = 0
    /\ simulator_num_simulations = 0
    /\ default_init_strategy = "sir"
    /\ posteriors = <<>>

SpaIdle ==
    /\ pc = "idle"
    /\ error = "none"
    /\ nbr_iter = 0
    /\ batch_size = 1
    /\ batch_size_post = 1
    /\ epochs_hot_start = 0
    /\ validation_fraction = <<0, 1>>
    /\ i = 0
    /\ prob_prior_i = <<0, 1>>
    /\ nbr_lik_i = 0
    /\ nbr_lik_prior = 0
    /\ nbr_like_post = 0
    /\ theta_full = <<>>
    /\ x_full = 0
    /\ flow_lik = 0
    /\ flow_post = 0
    /\ models_lik = <<>>
    /\ models_post = <<>>
    /\ epochs = 0
    /\ train_rows = 0
    /\ eval_rows = 0
    /\ checked = {}
    /\ updated = {}
    /\ ret = "none"

(* ===================== the early-stopping monitor ===================== *)
(* The epoch loop of a training phase with early_stopping = True, reduced  *)
(* to what the monitor sees: one validation loss per epoch, the check from *)
(* epoch 1 on, and the return when the check answers None.                 *)
MonInit ==
    /\ e = 0
    /\ losses_eval = <<>>
    /\ nbr_waited = 0
    /\ current_lowest_eval_loss = Inf
    /\ early_stopping = TRUE
    /\ stop_after_epochs \in 0..MaxStop
    /\ plateau = 0
    /\ SplitIdle /\ RunIdle /\ SpaIdle

(* Bookkeeping for the plateau of C3: the lowest loss among those seen (nan *)
(* is never the lowest), and whether a loss fails to improve on it.         *)
BestSeen(seq) ==
    LET S == {seq[k] : k \in 1..Len(seq)} \ {NaN}
    IN  IF S = {} THEN Inf ELSE CHOOSE m \in S : \A v \in S : m <= v

NonImproving(l, seq) == ~FLt(l, BestSeen(seq))

(* epoch 0: the loss is recorded, no check (e >= 1 fails) *)
MonFirstEpoch(l) ==
    /\ losses_eval = <<>>
    /\ e' = 0
    /\ losses_eval' = <<l>>
    /\ UNCHANGED <<nbr_waited, current_lowest_eval_loss, early_stopping,
                   stop_after_epochs, plateau>>
    /\ UNCHANGED <<varsSplit, varsRun, varsSpa>>

(* epoch e >= 1: the loss is recorded and _early_stopping_check is applied *)
MonEpoch(l) ==
    /\ losses_eval # <<>>
    /\ nbr_waited # None
    /\ Len(losses_eval) < MaxMonEpochs
    /\ LET ep == Len(losses_eval)
           ls == Append(losses_eval, l)
           res == _early_stopping_check(ls[ep + 1], ls[ep], current_lowest_eval_loss,
                                        nbr_waited, stop_after_epochs, ep)
       IN  /\ e' = ep
           /\ losses_eval' = ls
           /\ nbr_waited' = res[1]
           /\ current_lowest_eval_loss' = res[2]
           /\ plateau' = IF NonImproving(l, losses_eval) THEN plateau + 1 ELSE 0
    /\ UNCHANGED <<early_stopping, stop_after_epochs>>
    /\ UNCHANGED <<varsSplit, varsRun, varsSpa>>

MonNext ==
    \/ \E l \in LossValues : MonFirstEpoch(l)
    \/ \E l \in LossValues : MonEpoch(l)

SpecMonitor == MonInit /\ [][MonNext]_vars

(* ========================= _split_train_eval ========================== *)
(* validation_fraction as the caller writes it; 0.1 is the default *)
ValidationFractions == {<<0, 1>>, <<1, 10>>, <<1, 4>>, <<29, 100>>, <<1, 2>>, <<1, 1>>}

(* the batch sizes N tried: every small one, and one of a hundred rows *)
SplitRows == (0..MaxRows) \cup {100}

(* torch.randperm(n) returns an order of the row indices 0..n-1: any of    *)
(* them, which one being fixed by the state of the generator               *)
IsPermutation(p, n) ==
    /\ Len(p) = n
    /\ {p[k] : k \in 1..n} = 0..(n - 1)

Randperm(n) == {p \in [1..n -> 0..(n - 1)] : IsPermutation(p, n)}

(* seq[from:] and seq[:to] of Python, on a 1-based sequence *)
SliceTo(seq, to) == SubSeq(seq, 1, to)
SliceFromOverlapping(seq, from) == SubSeq(seq, IF from = 0 THEN 1 ELSE from, Len(seq))
SliceFrom(seq, from) == SubSeq(seq, from + 1, Len(seq))

(* x[idx, :] : the rows of x picked by idx, in idx's order *)
Rows(x, idx) == [k \in 1..Len(idx) |-> x[idx[k] + 1]]

(* the batch handed in: row k of x was simulated from row k of theta *)
BatchRows(n) == [k \in 1..n |-> k - 1]

(* The generator states the calls are started in.  A small batch is tried  *)
(* with every order; a larger one has too many, and is tried with these of *)
(* them: the rising order and the falling order, each started at every row *)
(* and wrapped around.                                                     *)
WrappedOrders(n) ==
    {[k \in 1..n |-> (k - 1 + s) % n] : s \in 0..(n - 1)}
        \cup {[k \in 1..n |-> (n - k + s) % n] : s \in 0..(n - 1)}
GeneratorStatesTried(n) == IF n <= MaxRows THEN Randperm(n) ELSE WrappedOrders(n)

SplitInit ==
    /\ split_pc = "called"
    /\ split_n \in SplitRows
    /\ split_fraction \in ValidationFractions
    /\ generator \in GeneratorStatesTried(split_n)
    /\ permutation_eval = <<>>
    /\ idx_eval = <<>>
    /\ idx_train = <<>>
    /\ x_train = <<>>
    /\ theta_train = <<>>
    /\ x_eval = <<>>
    /\ theta_eval = <<>>
    /\ LoopIdle /\ RunIdle /\ SpaIdle

_split_train_eval ==
    /\ split_pc = "called"
    /\ IsPermutation(generator, split_n)
    /\ LET p == generator
           nbr_eval == IntOfProduct(split_n, split_fraction)
           ie == SliceTo(p, nbr_eval)
           it == SliceFrom(p, nbr_eval)
       IN  /\ permutation_eval' = p
           /\ idx_eval' = ie
           /\ idx_train' = it
           /\ x_eval' = Rows(BatchRows(split_n), ie)
           /\ theta_eval' = Rows(BatchRows(split_n), ie)
           /\ x_train' = Rows(BatchRows(split_n), it)
           /\ theta_train' = Rows(BatchRows(split_n), it)
    /\ split_pc' = "returned"
    /\ UNCHANGED <<split_n, split_fraction, generator>>
    /\ UNCHANGED <<varsLoop, varsRun, varsSpa>>

SplitNext == _split_train_eval

SpecSplit == SplitInit /\ [][SplitNext]_vars

(* ===================== run() of benchmark_snrmcmc ===================== *)
BatchSizeArgs == {3, 1000}

Min(a, b) == IF a < b THEN a ELSE b

(* budget-per-round arithmetic, lines 75-80 *)
PerRound(ns, nr) == IF nr = 1 THEN ns ELSE ns \div nr

RunInit == RunIdle /\ LoopIdle /\ SplitIdle /\ SpaIdle

(* lines 70-124: a call of run relying on the default mcmc_parameters *)
RunCall(ns, nr, sbs, tbs) ==
    /\ run_pc \in {"idle", "returned", "assert_failed", "library_error"}
    /\ calls < MaxCalls
    /\ calls' = calls + 1
    /\ num_simulations' = ns
    /\ num_rounds' = nr
    /\ num_simulations_per_round' = PerRound(ns, nr)
    /\ simulation_batch_size' = Min(sbs, PerRound(ns, nr))
    /\ training_batch_size' = Min(tbs, PerRound(ns, nr))
    /\ simulator_num_simulations' = 0
    /\ posteriors' = <<>>
    /\ r' = 0
    /\ run_pc' = "round"
    /\ UNCHANGED default_init_strategy
    /\ UNCHANGED <<varsLoop, varsSplit, varsSpa>>

(* lines 126-152: one round; the simulator counts the rows it simulated *)
RunRound ==
    /\ run_pc = "round"
    /\ r < num_rounds
    /\ simulator_num_simulations' = simulator_num_simulations + num_simulations_per_round
    /\ default_init_strategy' = IF r > 1 THEN "latest_sample" ELSE default_init_strategy
    /\ posteriors' = Append(posteriors, default_init_strategy')
    /\ r' = r + 1
    /\ UNCHANGED <<run_pc, calls, num_simulations, num_rounds, num_simulations_per_round,
                   simulation_batch_size, training_batch_size>>
    /\ UNCHANGED <<varsLoop, varsSplit, varsSpa>>

(* a round with a budget of zero simulations: the inference library may    *)
(* refuse the empty training set                                           *)
RunRoundLibraryError ==
    /\ run_pc = "round"
    /\ r < num_rounds
    /\ num_simulations_per_round = 0
    /\ run_pc' = "library_error"
    /\ UNCHANGED <<calls, num_simulations, num_rounds, num_simulations_per_round,
                   simulation_batch_size, training_batch_size, r,
                   simulator_num_simulations, default_init_strategy, posteriors>>
    /\ UNCHANGED <<varsLoop, varsSplit, varsSpa>>

(* lines 154-163: the final assertion holds and run returns *)
RunReturn ==
    /\ run_pc = "round"
    /\ r = num_rounds
    /\ simulator_num_simulations = num_simulations
    /\ run_pc' = "returned"
    /\ UNCHANGED <<calls, num_simulations, num_rounds, num_simulations_per_round,
                   simulation_batch_size, training_batch_size, r,
                   simulator_num_simulations, default_init_strategy, posteriors>>
    /\ UNCHANGED <<varsLoop, varsSplit, varsSpa>>

(* line 159: the final assertion fails *)
RunAssertFail ==
    /\ run_pc = "round"
    /\ r = num_rounds
    /\ simulator_num_simulations # num_simulations
    /\ run_pc' = "assert_failed"
    /\ UNCHANGED <<calls, num_simulations, num_rounds, num_simulations_per_round,
                   simulation_batch_size, training_batch_size, r,
                   simulator_num_simulations, default_init_strategy, posteriors>>
    /\ UNCHANGED <<varsLoop, varsSplit, varsSpa>>

RunNext ==
    \/ \E ns \in 1..MaxSims, nr \in 1..MaxRounds, sbs \in BatchSizeArgs, tbs \in BatchSizeArgs :
         RunCall(ns, nr, sbs, tbs)
    \/ RunRound
    \/ RunRoundLibraryError
    \/ RunReturn
    \/ RunAssertFail

SpecRun == RunInit /\ [][RunNext]_vars

(* =========================== inference_spa ============================ *)
ProbPriors == {<<0, 1>>, <<1, 10>>, <<1, 2>>, <<9, 10>>, <<1, 1>>}
SpaValidationFractions == {<<1, 10>>, <<1, 2>>}
BatchSizes == {2}
HotStartEpochs == {0, 1}

(* what prior.log_prob answers for a row drawn from the posterior flow *)
LogProbValues == {"finite", "neg_inf", "pos_inf", "nan"}

(* torch.isinf *)
IsInf(lp) == lp \in {"neg_inf", "pos_inf"}

(* lines 79-80 *)
NbrLikPrior(p, n) == IntOfProduct(n, p)
NbrLikePost(p, n) == IntOfProduct(n, OneMinus(p))

(* prior.sample: rows inside the prior's support *)
PriorSample(k) == [j \in 1..k |-> [src |-> "prior", log_prob |-> "finite"]]

(* flow_post.sample, each row with the value prior.log_prob gives it *)
PostSample(lps) == [j \in 1..Len(lps) |-> [src |-> "post", log_prob |-> lps[j]]]

(* lines 90-101: the rows idx_save keeps, joined to the prior rows *)
ThetaFull(theta_prior, theta_post) ==
    LET saved == SelectSeq(theta_post, LAMBDA row : ~IsInf(row.log_prob))
    IN  IF Len(saved) > 0 THEN theta_prior \o saved ELSE theta_prior

(* range(nbr_iter) of the outer loop *)
LoopStopsOneShort(k, n) == k + 1 < n
LoopContinues(k, n) == k < n

(* len(range(0, n, bs)): the mini-batches of one epoch *)
NumBatches(n, bs) == (n + bs - 1) \div bs

(* the validation loss of an epoch: the mean over no rows is nan *)
PhaseLosses(rows) == IF rows = 0 THEN {NaN} ELSE 0..MaxPhaseLoss

SpaInit ==
    /\ pc = "loop"
    /\ error = "none"
    /\ nbr_iter \in 0..MaxIter
    /\ batch_size \in BatchSizes
    /\ batch_size_post \in BatchSizes
    /\ epochs_hot_start \in HotStartEpochs
    /\ validation_fraction \in SpaValidationFractions
    /\ early_stopping \in BOOLEAN
    /\ stop_after_epochs \in 0..MaxStop
    /\ i = 0
    /\ prob_prior_i = <<0, 1>>
    /\ nbr_lik_i = 0
    /\ nbr_lik_prior = 0
    /\ nbr_like_post = 0
    /\ theta_full = <<>>
    /\ x_full = 0
    /\ flow_lik = 0
    /\ flow_post = 0
    /\ models_lik = <<>>
    /\ models_post = <<>>
    /\ epochs = 0
    /\ train_rows = 0
    /\ eval_rows = 0
    /\ checked = {}
    /\ updated = {}
    /\ ret = "none"
    /\ e = 0
    /\ losses_eval = <<>>
    /\ nbr_waited = 0
    /\ current_lowest_eval_loss = Inf
    /\ plateau = 0
    /\ SplitIdle /\ RunIdle

varsMonitorOnly == <<plateau>>
varsOther == <<varsSplit, varsRun, varsMonitorOnly, early_stopping, stop_after_epochs>>
varsLocals == <<e, losses_eval, nbr_waited, current_lowest_eval_loss>>

(* lines 66-85, 105: an iteration whose posterior share is zero *)
IterPriorOnly(p, n) ==
    /\ pc = "loop"
    /\ LoopContinues(i, nbr_iter)
    /\ NbrLikePost(p, n) = 0
    /\ prob_prior_i' = p
    /\ nbr_lik_i' = n
    /\ nbr_lik_prior' = NbrLikPrior(p, n)
    /\ nbr_like_post' = NbrLikePost(p, n)
    /\ theta_full' = PriorSample(NbrLikPrior(p, n))
    /\ x_full' = Len(theta_full')
    /\ pc' = "train_like"
    /\ UNCHANGED <<i, error, varsArgs, varsModels, varsPhase, varsLocals, varsOther>>

(* lines 66-82, 86-105: an iteration that draws from the posterior flow *)
IterMixture(p, n, lps) ==
    /\ pc = "loop"
    /\ LoopContinues(i, nbr_iter)
    /\ NbrLikePost(p, n) # 0
    /\ prob_prior_i' = p
    /\ nbr_lik_i' = n
    /\ nbr_lik_prior' = NbrLikPrior(p, n)
    /\ nbr_like_post' = NbrLikePost(p, n)
    /\ theta_full' = ThetaFull(PriorSample(NbrLikPrior(p, n)), PostSample(lps))
    /\ x_full' = Len(theta_full')
    /\ pc' = "train_like"
    /\ UNCHANGED <<i, error, varsArgs, varsModels, varsPhase, varsLocals, varsOther>>

(* the locals of a training phase that has returned no longer exist *)
PhaseFrameGone ==
    /\ epochs' = 0
    /\ train_rows' = 0
    /\ eval_rows' = 0
    /\ checked' = {}
    /\ updated' = {}
    /\ ret' = "none"
    /\ e' = 0
    /\ losses_eval' = <<>>
    /\ nbr_waited' = 0
    /\ current_lowest_eval_loss' = Inf

(* the iteration's shares and batches are not read after line 115; they are *)
(* dropped when the posterior phase begins (lines 79-105 reassign them)     *)
IterBatchDropped ==
    /\ prob_prior_i' = <<0, 1>>
    /\ nbr_lik_i' = 0
    /\ nbr_lik_prior' = 0
    /\ nbr_like_post' = 0
    /\ theta_full' = <<>>
    /\ x_full' = 0

(* ---- _train_like ---- *)
(* lines 131-140 *)
LikeBegin(ep) ==
    /\ pc = "train_like"
    /\ epochs' = ep
    /\ eval_rows' = IntOfProduct(x_full, validation_fraction)
    /\ train_rows' = x_full - IntOfProduct(x_full, validation_fraction)
    /\ losses_eval' = <<>>
    /\ nbr_waited' = 0
    /\ current_lowest_eval_loss' = Inf
    /\ e' = 0
    /\ checked' = {}
    /\ updated' = {}
    /\ ret' = "none"
    /\ pc' = "like_eval"
    /\ UNCHANGED <<error, varsArgs, varsIter, varsModels, varsOther>>

(* lines 142-151 *)
LikeEval(l) ==
    /\ pc = "like_eval"
    /\ e < epochs
    /\ losses_eval' = Append(losses_eval, l)
    /\ pc' = "like_check"
    /\ UNCHANGED <<e, nbr_waited, current_lowest_eval_loss>>
    /\ UNCHANGED <<error, varsArgs, varsIter, varsModels, varsPhase, varsOther>>

(* line 154, condition false *)
LikeCheckSkip ==
    /\ pc = "like_check"
    /\ ~(early_stopping /\ e >= 1)
    /\ pc' = "like_train"
    /\ UNCHANGED <<error, varsArgs, varsIter, varsModels, varsPhase, varsLocals, varsOther>>

(* lines 154-158, the check does not answer None *)
LikeCheckContinue ==
    /\ pc = "like_check"
    /\ early_stopping /\ e >= 1
    /\ LET res == _early_stopping_check(losses_eval[e + 1], losses_eval[e],
                      current_lowest_eval_loss, nbr_waited, stop_after_epochs, e)
       IN  /\ res[1] # None
           /\ nbr_waited' = res[1]
           /\ current_lowest_eval_loss' = res[2]
    /\ checked' = checked \cup {e}
    /\ pc' = "like_train"
    /\ UNCHANGED <<e, losses_eval, epochs, train_rows, eval_rows, updated, ret>>
    /\ UNCHANGED <<error, varsArgs, varsIter, varsModels, varsOther>>

(* the same, with the check placed after the epoch's mini-batches *)
LikeCheckStopAfterStep ==
    /\ pc = "like_check"
    /\ early_stopping /\ e >= 1
    /\ LET res == _early_stopping_check(losses_eval[e + 1], losses_eval[e],
                      current_lowest_eval_loss, nbr_waited, stop_after_epochs, e)
       IN  /\ res[1] = None
           /\ nbr_waited' = res[1]
           /\ current_lowest_eval_loss' = res[2]
    /\ checked' = checked \cup {e}
    /\ updated' = updated \cup {e}
    /\ ret' = "stopped"
    /\ flow_lik' = flow_lik + 1
    /\ pc' = "after_like"
    /\ UNCHANGED <<e, losses_eval, epochs, train_rows, eval_rows>>
    /\ UNCHANGED <<error, varsArgs, varsIter, flow_post, models_lik, models_post, varsOther>>

(* lines 154-159, the check answers None and the phase returns *)
LikeCheckStop ==
    /\ pc = "like_check"
    /\ early_stopping /\ e >= 1
    /\ LET res == _early_stopping_check(losses_eval[e + 1], losses_eval[e],
                      current_lowest_eval_loss, nbr_waited, stop_after_epochs, e)
       IN  /\ res[1] = None
           /\ nbr_waited' = res[1]
           /\ current_lowest_eval_loss' = res[2]
    /\ checked' = checked \cup {e}
    /\ ret' = "stopped"
    /\ flow_lik' = flow_lik + 1
    /\ pc' = "after_like"
    /\ UNCHANGED <<e, losses_eval, epochs, train_rows, eval_rows, updated>>
    /\ UNCHANGED <<error, varsArgs, varsIter, flow_post, models_lik, models_post, varsOther>>

(* lines 161-179: the mini-batches of epoch e, then the progress line *)
LikeTrainEpoch ==
    /\ pc = "like_train"
    /\ train_rows # 0
    /\ updated' = IF NumBatches(train_rows, batch_size) > 0 THEN updated \cup {e} ELSE updated
    /\ e' = e + 1
    /\ pc' = "like_eval"
    /\ UNCHANGED <<losses_eval, nbr_waited, current_lowest_eval_loss>>
    /\ UNCHANGED <<epochs, train_rows, eval_rows, checked, ret>>
    /\ UNCHANGED <<error, varsArgs, varsIter, varsModels, varsOther>>

(* line 179 with no training row: loss_e / (0 / batch_size) raises ZeroDivisionError *)
LikeTrainCrash ==
    /\ pc = "like_train"
    /\ train_rows = 0
    /\ error' = "_train_like"
    /\ pc' = "crashed"
    /\ UNCHANGED <<varsArgs, varsIter, varsModels, varsPhase, varsLocals, varsOther>>

(* lines 142, 181: the loop ran its epochs *)
LikeReturn ==
    /\ pc = "like_eval"
    /\ e >= epochs
    /\ ret' = "completed"
    /\ flow_lik' = flow_lik + 1
    /\ pc' = "after_like"
    /\ UNCHANGED <<epochs, train_rows, eval_rows, checked, updated>>
    /\ UNCHANGED <<error, varsArgs, varsIter, flow_post, models_lik, models_post,
                   varsLocals, varsOther>>

(* ---- _train_post_prior_pred, first iteration only (lines 113-115, 184-220) ---- *)
HotStart ==
    /\ pc = "after_like"
    /\ i = 0
    /\ \/ epochs_hot_start = 0
       \/ x_full - IntOfProduct(x_full, validation_fraction) # 0
    /\ flow_post' = flow_post + 1
    /\ pc' = "after_hot"
    /\ PhaseFrameGone
    /\ UNCHANGED <<error, varsArgs, varsIter, flow_lik, models_lik, models_post, varsOther>>

(* line 218 with no training row *)
HotStartCrash ==
    /\ pc = "after_like"
    /\ i = 0
    /\ epochs_hot_start >= 1
    /\ x_full - IntOfProduct(x_full, validation_fraction) = 0
    /\ error' = "_train_post_prior_pred"
    /\ pc' = "crashed"
    /\ UNCHANGED <<varsArgs, varsIter, varsModels, varsPhase, varsLocals, varsOther>>

(* ---- _train_post_sim_fly ---- *)
(* lines 120-122, 223-236 *)
PostBegin(np, ep) ==
    /\ \/ pc = "after_like" /\ i # 0
       \/ pc = "after_hot"
    /\ epochs' = ep
    /\ train_rows' = np
    /\ eval_rows' = IntOfProduct(np, validation_fraction)
    /\ losses_eval' = <<>>
    /\ nbr_waited' = 0
    /\ current_lowest_eval_loss' = Inf
    /\ e' = 0
    /\ checked' = {}
    /\ updated' = {}
    /\ ret' = "none"
    /\ pc' = "post_eval"
    /\ IterBatchDropped
    /\ UNCHANGED <<i, error, varsArgs, varsModels, varsOther>>

(* lines 238-258 *)
PostEval(l) ==
    /\ pc = "post_eval"
    /\ e < epochs
    /\ losses_eval' = Append(losses_eval, l)
    /\ pc' = "post_check"
    /\ UNCHANGED <<e, nbr_waited, current_lowest_eval_loss>>
    /\ UNCHANGED <<error, varsArgs, varsIter, varsModels, varsPhase, varsOther>>

(* line 261, condition false *)
PostCheckSkip ==
    /\ pc = "post_check"
    /\ ~(early_stopping /\ e >= 1)
    /\ pc' = "post_train"
    /\ UNCHANGED <<error, varsArgs, varsIter, varsModels, varsPhase, varsLocals, varsOther>>

(* lines 261-265, the check does not answer None *)
PostCheckContinue ==
    /\ pc = "post_check"
    /\ early_stopping /\ e >= 1
    /\ LET res == _early_stopping_check(losses_eval[e + 1], losses_eval[e],
                      current_lowest_eval_loss, nbr_waited, stop_after_epochs, e)
       IN  /\ res[1] # None
           /\ nbr_waited' = res[1]
           /\ current_lowest_eval_loss' = res[2]
    /\ checked' = checked \cup {e}
    /\ pc' = "post_train"
    /\ UNCHANGED <<e, losses_eval, epochs, train_rows, eval_rows, updated, ret>>
    /\ UNCHANGED <<error, varsArgs, varsIter, varsModels, varsOther>>

(* lines 261-266, the check answers None and the phase returns *)
PostCheckStop ==
    /\ pc = "post_check"
    /\ early_stopping /\ e >= 1
    /\ LET res == _early_stopping_check(losses_eval[e + 1], losses_eval[e],
                      current_lowest_eval_loss, nbr_waited, stop_after_epochs, e)
       IN  /\ res[1] = None
           /\ nbr_waited' = res[1]
           /\ current_lowest_eval_loss' = res[2]
    /\ checked' = checked \cup {e}
    /\ ret' = "stopped"
    /\ flow_post' = flow_post + 1
    /\ pc' = "after_post"
    /\ UNCHANGED <<e, losses_eval, epochs, train_rows, eval_rows, updated>>
    /\ UNCHANGED <<error, varsArgs, varsIter, flow_lik, models_lik, models_post, varsOther>>

(* lines 268-290: the mini-batches of epoch e, then the progress line *)
PostTrainEpoch ==
    /\ pc = "post_train"
    /\ train_rows \div batch_size_post # 0
    /\ updated' = IF NumBatches(train_rows, batch_size_post) > 0
                  THEN updated \cup {e} ELSE updated
    /\ e' = e + 1
    /\ pc' = "post_eval"
    /\ UNCHANGED <<losses_eval, nbr_waited, current_lowest_eval_loss>>
    /\ UNCHANGED <<epochs, train_rows, eval_rows, checked, ret>>
    /\ UNCHANGED <<error, varsArgs, varsIter, varsModels, varsOther>>

(* line 290 with nbr_post < batch_size: loss_e / (nbr_post // batch_size) raises *)
(* ZeroDivisionError, after the epoch's mini-batches                             *)
PostTrainCrash ==
    /\ pc = "post_train"
    /\ train_rows \div batch_size_post = 0
    /\ updated' = IF NumBatches(train_rows, batch_size_post) > 0
                  THEN updated \cup {e} ELSE updated
    /\ error' = "_train_post_sim_fly"
    /\ pc' = "crashed"
    /\ UNCHANGED <<epochs, train_rows, eval_rows, checked, ret>>
    /\ UNCHANGED <<varsArgs, varsIter, varsModels, varsLocals, varsOther>>

(* lines 238, 292: the loop ran its epochs *)
PostReturn ==
    /\ pc = "post_eval"
    /\ e >= epochs
    /\ ret' = "completed"
    /\ flow_post' = flow_post + 1
    /\ pc' = "after_post"
    /\ UNCHANGED <<epochs, train_rows, eval_rows, checked, updated>>
    /\ UNCHANGED <<error, varsArgs, varsIter, flow_lik, models_lik, models_post,
                   varsLocals, varsOther>>

(* lines 125-126: deep copies of both models, then the next iteration *)
Snapshot ==
    /\ pc = "after_post"
    /\ models_lik' = Append(models_lik, flow_lik)
    /\ models_post' = Append(models_post, flow_post)
    /\ i' = i + 1
    /\ pc' = "loop"
    /\ UNCHANGED <<prob_prior_i, nbr_lik_i, nbr_lik_prior, nbr_like_post, theta_full, x_full>>
    /\ PhaseFrameGone
    /\ UNCHANGED <<error, varsArgs, flow_lik, flow_post, varsOther>>

(* line 128 *)
Return ==
    /\ pc = "loop"
    /\ ~LoopContinues(i, nbr_iter)
    /\ pc' = "returned"
    /\ UNCHANGED <<error, varsArgs, varsIter, varsModels, varsPhase, varsLocals, varsOther>>

Init == SpaInit

Next ==
    \/ \E p \in ProbPriors, n \in 0..MaxLik : IterPriorOnly(p, n)
    \/ \E p \in ProbPriors, n \in 0..MaxLik :
         \E lps \in [1..NbrLikePost(p, n) -> LogProbValues] : IterMixture(p, n, lps)
    \/ \E ep \in 0..MaxEpochs : LikeBegin(ep)
    \/ \E l \in PhaseLosses(eval_rows) : LikeEval(l)
    \/ LikeCheckSkip
    \/ LikeCheckContinue
    \/ LikeCheckStop
    \/ LikeTrainEpoch
    \/ LikeTrainCrash
    \/ LikeReturn
    \/ HotStart
    \/ HotStartCrash
    \/ \E np \in 0..MaxPost, ep \in 0..MaxEpochs : PostBegin(np, ep)
    \/ \E l \in PhaseLosses(eval_rows) : PostEval(l)
    \/ PostCheckSkip
    \/ PostCheckContinue
    \/ PostCheckStop
    \/ PostTrainEpoch
    \/ PostTrainCrash
    \/ PostReturn
    \/ Snapshot
    \/ Return

Spec == Init /\ [][Next]_vars

(* ============================== claims ================================ *)
Range(seq) == {seq[k] : k \in 1..Len(seq)}

(* C1: inference_spa returns two lists of exactly nbr_iter = len(prob_prior) *)
(* snapshots each, whatever the training phases' early stopping did: both    *)
(* lists hold one snapshot per finished iteration, and the snapshot of       *)
(* iteration k is taken after the k+1 likelihood trainings and the k+1       *)
(* posterior trainings (plus the hot start) up to that iteration returned.   *)
C1_SnapshotPerIteration ==
    /\ Len(models_lik) = i
    /\ Len(models_post) = i
    /\ pc = "returned" => Len(models_lik) = nbr_iter /\ Len(models_post) = nbr_iter
    /\ \A k \in 1..Len(models_lik) : models_lik[k] = k
    /\ \A k \in 1..Len(models_post) : models_post[k] = k + 1

C1_Witness ==
    /\ pc = "returned"
    /\ nbr_iter = 2
    /\ early_stopping
    /\ stop_after_epochs = 1
    /\ models_lik = <<1, 2>>
    /\ models_post = <<2, 3>>

(* C2: fed a strictly decreasing sequence of validation losses from the      *)
(* initial monitor state, with stop_after_epochs >= 1, the wait counter is 0 *)
(* after every epoch e >= 1 and the stop signal (None) is never given.       *)
StrictlyDecreasing(seq) == \A k \in 1..(Len(seq) - 1) : FGt(seq[k], seq[k + 1])

C2_DecreasingNeverWaits ==
    (Len(losses_eval) >= 2 /\ StrictlyDecreasing(losses_eval) /\ stop_after_epochs >= 1)
        => nbr_waited = 0

C2_Witness ==
    /\ Len(losses_eval) = 4
    /\ StrictlyDecreasing(losses_eval)
    /\ stop_after_epochs >= 1
    /\ nbr_waited = 0

(* C3: after a reset of the wait counter, a plateau of stop_after_epochs     *)
(* consecutive epochs whose loss is not lower than the best loss seen makes  *)
(* _early_stopping_check answer None exactly at the plateau's                *)
(* stop_after_epochs-th epoch, and at no earlier epoch. Stated for finite    *)
(* losses, and for plateaus that follow an improving epoch (the epoch at     *)
(* which the code resets the counter).                                       *)
ResetSeen == plateau < Len(losses_eval) - 1

C3_StopAtPlateauEnd ==
    (stop_after_epochs >= 1 /\ ResetSeen /\ Range(losses_eval) \subseteq FiniteLoss)
        => ((nbr_waited = None) <=> (plateau >= stop_after_epochs))

(* C4: the posterior-drawn rows kept in theta_full are at most nbr_like_post *)
(* and each has a finite prior log-density (not -inf, +inf or nan).          *)
C4_KeptRowsFinite ==
    LET kept == SelectSeq(theta_full, LAMBDA row : row.src = "post")
    IN  /\ Len(kept) <= nbr_like_post
        /\ \A k \in 1..Len(kept) : kept[k].log_prob = "finite"

(* C5: _split_train_eval picks a validation index set and a training index   *)
(* set that are disjoint, whose sizes sum to N, the validation set holding   *)
(* exactly floor(validation_fraction * N) rows; x and theta are split by the *)
(* same indices, so every output row of x sits beside its own theta row.     *)
(* validation_fraction is the double the function receives,                  *)
(* Float(split_fraction), and the product is the product of doubles.         *)
C5_SplitPartition ==
    split_pc = "returned" =>
        /\ Range(idx_eval) \cap Range(idx_train) = {}
        /\ Cardinality(Range(idx_eval)) = Len(idx_eval)
        /\ Cardinality(Range(idx_train)) = Len(idx_train)
        /\ Len(idx_eval) + Len(idx_train) = split_n
        /\ Range(idx_eval) \cup Range(idx_train) = 0..(split_n - 1)
        /\ Len(idx_eval) = IntOfProduct(split_n, Float(split_fraction))
        /\ Len(x_eval) = Len(idx_eval) /\ Len(theta_eval) = Len(idx_eval)
        /\ Len(x_train) = Len(idx_train) /\ Len(theta_train) = Len(idx_train)
        /\ \A k \in 1..Len(idx_eval) : x_eval[k] = idx_eval[k] /\ theta_eval[k] = idx_eval[k]
        /\ \A k \in 1..Len(idx_train) : x_train[k] = idx_train[k] /\ theta_train[k] = idx_train[k]

C5_Witness ==
    /\ split_pc = "returned"
    /\ split_n = 100
    /\ split_fraction = <<29, 100>>
    /\ Len(idx_eval) = 28
    /\ Len(idx_train) = 72
    /\ idx_eval[1] = 99

(* C6: for every num_simulations >= 1 and num_rounds >= 1, after the last    *)
(* round the simulator has simulated exactly num_simulations rows, so the    *)
(* final assertion holds and run returns that count. Stated for budgets of   *)
(* at least one simulation per round.                                        *)
C6_BudgetSpent ==
    num_simulations >= num_rounds =>
        /\ (run_pc = "round" /\ r = num_rounds) => simulator_num_simulations = num_simulations
        /\ run_pc # "assert_failed"

(* C7: with nbr_lik[i] = 0 the parameter batch and the simulated batch have  *)
(* no rows, and _train_like run for at least one epoch on them completes or  *)
(* rejects the batch: it does not abort with an unhandled error.             *)
C7_EmptyBatchHandled ==
    /\ nbr_lik_i = 0 => (Len(theta_full) = 0 /\ x_full = 0)
    /\ ~(nbr_lik_i = 0 /\ epochs >= 1 /\ pc = "crashed" /\ error = "_train_like")

(* C8: every call of _early_stopping_check applies one of three rules (worse *)
(* than the previous loss: wait + 1, best taken from loss_old if it beats    *)
(* the best; else worse than the best: wait + 1; else: best := loss_new and  *)
(* wait := 0), so no call made with a counter below stop_after_epochs leaves *)
(* both the best and the counter as they were. Stated for finite losses.     *)
ClaimedRules(loss_new, loss_old, lowest, waited) ==
    IF FGt(loss_new, loss_old)
    THEN <<waited + 1, IF FLt(loss_old, lowest) THEN loss_old ELSE lowest>>
    ELSE IF FGt(loss_new, lowest)
    THEN <<waited + 1, lowest>>
    ELSE <<0, loss_new>>

C8_OneRulePerCall ==
    [][(losses_eval # <<>> /\ losses_eval' # losses_eval /\ Range(losses_eval') \subseteq FiniteLoss) =>
         LET c == ClaimedRules(losses_eval'[Len(losses_eval')], losses_eval[Len(losses_eval)],
                               current_lowest_eval_loss, nbr_waited)
         IN  /\ current_lowest_eval_loss' = c[2]
             /\ nbr_waited' = IF c[1] >= stop_after_epochs THEN None ELSE c[1]
             /\ nbr_waited < stop_after_epochs =>
                    <<current_lowest_eval_loss', nbr_waited'>>
                        # <<current_lowest_eval_loss, nbr_waited>>]_vars

(* C9: in every iteration the prior draws and the attempted posterior draws  *)
(* add up to nbr_lik[i].                                                     *)
C9_SharesAddUp ==
    nbr_lik_prior + nbr_like_post = nbr_lik_i

(* C10: in _train_like and _train_post_sim_fly no optimizer step of epoch k  *)
(* is taken before the epoch's validation loss is recorded and, when         *)
(* early_stopping holds and k >= 1, the check has run; a phase that returns  *)
(* because the check answered None at epoch e has stepped the optimizer in   *)
(* exactly the epochs 0..e-1; a phase that returns otherwise has stepped it  *)
(* in exactly the epochs 0..epochs-1.                                        *)
C10_CheckBeforeStep ==
    /\ \A k \in updated :
         /\ k < Len(losses_eval)
         /\ (early_stopping /\ k >= 1) => k \in checked
    /\ ret = "stopped" =>
         /\ early_stopping
         /\ nbr_waited = None
         /\ e \in checked
         /\ e < epochs
         /\ updated = 0..(e - 1)
    /\ ret = "completed" => updated = 0..(epochs - 1)

C10_Witness ==
    /\ pc = "after_post"
    /\ ret = "stopped"
    /\ epochs = 3
    /\ e = 2
    /\ updated = {0, 1}

(* C11: successive calls of run that rely on the default mcmc_parameters   *)
(* are independent of each other: in every call the posteriors of rounds 0 *)
(* and 1 are built with the default init_strategy "sir" and only those of  *)
(* the call's own rounds r >= 2 with "latest_sample", whatever number of   *)
(* rounds earlier calls have executed.  posteriors[k] is the strategy the  *)
(* current call passed to build_posterior in its round k - 1.              *)
C11_CallsIndependent ==
    \A k \in 1..Len(posteriors) :
        posteriors[k] = IF k - 1 >= 2 THEN "latest_sample" ELSE "sir"

====
